---- MODULE Spec2Model ----
(***************************************************************************)
(* Model of fabio/app/densify.py: the command line driver (parse_args,     *)
(* main), the batch driver (Converter.decompress), the per-file pipeline   *)
(* (Converter.decompress_one) with its multiprocessing ThreadPool, and the *)
(* companion file writer (save_master).                                    *)
(*                                                                         *)
(* File names are sequences of one-character strings so that the path      *)
(* arithmetic of the program (splitext, reverse, split) is computed as the *)
(* program computes it.                                                    *)
(***************************************************************************)
EXTENDS Integers, Sequences, FiniteSets, TLC

\* ------------------------------------------------------------------ bounds
\* Largest frame count of an input file.
MaxFrames == 4

\* multiprocessing.cpu_count() of the host: the number of pool workers.
PoolSize == 2

\* ------------------------------------------------------- program constants
EXIT_SUCCESS == 0

EXIT_FAILURE == 1

EXIT_ARGUMENT_FAILURE == 2

\* ProgressBar("Decompression", 50, 50): the initial pb.max_value.
PbInitialMax == 50

None == "None"

\* the None of a path-valued variable
NoPath == <<>>

\* the None of a variable holding an AsyncResult
NoHandle == <<0, 0>>

\* ------------------------------------------------------------ text helpers
\* s[-1::-1]
Reverse(s) == [i \in 1..Len(s) |-> s[Len(s) + 1 - i]]

\* str.rfind(c) on 1-based positions, 0 when c does not occur
RFind(s, c) ==
  LET hits == {i \in 1..Len(s) : s[i] = c}
  IN IF hits = {} THEN 0 ELSE CHOOSE i \in hits : \A j \in hits : j <= i

\* str.find(c) on 1-based positions, 0 when c does not occur
Find(s, c) ==
  LET hits == {i \in 1..Len(s) : s[i] = c}
  IN IF hits = {} THEN 0 ELSE CHOOSE i \in hits : \A j \in hits : i <= j

\* str.startswith(prefix)
StartsWith(s, prefix) ==
  /\ Len(prefix) <= Len(s)
  /\ SubSeq(s, 1, Len(prefix)) = prefix

\* str.lower() on the letters that occur in format names
LowerChar(c) ==
  CASE c = "L" -> "l" [] c = "I" -> "i" [] c = "M" -> "m" [] c = "A" -> "a"
    [] c = "E" -> "e" [] c = "G" -> "g" [] c = "R" -> "r" [] c = "X" -> "x"
    [] OTHER -> c

Lower(s) == [i \in 1..Len(s) |-> LowerChar(s[i])]

\* Code points of the characters of file names, for the ordering of list.sort()
Ord(c) ==
  CASE c = "." -> 46 [] c = "/" -> 47 [] c = "0" -> 48 [] c = "1" -> 49
    [] c = "5" -> 53 [] c = "_" -> 95 [] c = "a" -> 97 [] c = "b" -> 98
    [] c = "d" -> 100 [] c = "e" -> 101 [] c = "h" -> 104 [] c = "m" -> 109
    [] c = "n" -> 110 [] c = "o" -> 111 [] c = "r" -> 114 [] c = "s" -> 115
    [] c = "t" -> 116 [] c = "u" -> 117 [] c = "x" -> 120
    [] OTHER -> 0

\* str.__lt__: lexicographic order by code point
RECURSIVE StrLess(_, _)
StrLess(a, b) ==
  IF Len(b) = 0 THEN FALSE
  ELSE IF Len(a) = 0 THEN TRUE
  ELSE IF Ord(a[1]) # Ord(b[1]) THEN Ord(a[1]) < Ord(b[1])
  ELSE StrLess(Tail(a), Tail(b))

\* os.path.splitext(p)[0]: the last dot after the last separator starts the
\* extension, unless only dots precede it in the file name.
SplitextRoot(p) ==
  LET sepIndex == RFind(p, "/")
      dotIndex == RFind(p, ".")
      named == \E k \in (sepIndex + 1)..(dotIndex - 1) : p[k] # "."
  IN IF dotIndex > sepIndex /\ named THEN SubSeq(p, 1, dotIndex - 1) ELSE p

\* ------------------------------------------------------------ name pieces
DenseSuffix == <<"_", "d", "e", "n", "s", "e", ".", "h", "5">>

EigerSuffix == <<"_", "0", "0", "0", "0", "0", "1", ".", "h", "5">>

MasterSuffix == <<"_", "m", "a", "s", "t", "e", "r", ".", "h", "5">>

LimaPrefix == <<"l", "i", "m", "a">>

EigerPrefix == <<"e", "i", "g", "e", "r">>

\* save_master, lines 171-173: the name of the companion file
MasterName(outfile) ==
  LET stem == SplitextRoot(outfile)
      rev == Reverse(stem)
      cut == Find(rev, "_")
      \* rev.split("_", 1): one piece without "_", two pieces with it
      s == IF cut = 0 THEN <<rev>>
           ELSE <<SubSeq(rev, 1, cut - 1), SubSeq(rev, cut + 1, Len(rev))>>
      p == IF Len(s) > 1 THEN 2 ELSE 1
  IN Reverse(s[p]) \o MasterSuffix

\* ------------------------------------------------------------- the inputs
FileA == <<"a", ".", "h", "5">>

FileB == <<"d", "_", "x", "/", "b", ".", "h", "5">>

InputNames == {FileA, FileB}

OutFile == <<"o", "u", "t", ".", "h", "5">>

\* values of -o/--output
OutputChoices == {NoPath, OutFile}

\* values of -O/--output-format as typed by the user
FormatChoices ==
  { <<"l", "i", "m", "a">>,
    <<"E", "i", "g", "e", "r">>,
    <<"e", "i", "g", "e", "r", "2">>,
    <<"n", "x", "m", "x">> }

\* IMAGE lists of the command line, in the order typed: none, one file, two
\* files typed out of order, the same file twice
ImageLists == { <<>>, <<FileA>>, <<FileB>>, <<FileB, FileA>>, <<FileA, FileA>> }

\* An input path names nothing, a file of another format, or a sparse file
InputStates ==
  {[kind |-> "other"]} \cup {[kind |-> "sparse", nframes |-> n] : n \in 0..MaxFrames}

\* the exit value parse_args returns in place of the namespace
ArgumentFailure ==
  [code |-> EXIT_ARGUMENT_FAILURE, images |-> <<>>, format |-> <<>>, output |-> NoPath]

\* sparse._generate_data(idx): the dense frame of index idx of the source
\* opened for position k of the batch
GenerateData(k, index) == [src |-> k, frame |-> index]

\* ---------------------------------------------------------------- state
VARIABLES
  pc,             \* position of the main thread
  argv,           \* the command line: IMAGE list, format, output
  args,           \* what parse_args returned
  fs,             \* the file system: path -> file
  pyfai,          \* "unknown" until the first import, then "present"/"absent"
  cur,            \* position in args.images of the file being converted
  sparse,         \* the source opened by the running decompress_one
  opened,         \* positions whose source handle is open
  pbMax,          \* self.pb.max_value
  dest,           \* the destination container of the running decompress_one
  pool,           \* per position: state of the ThreadPool created for it
  tasks,          \* per position: index -> reconstruction task of the pool
  future_frames,  \* the dict of the running decompress_one: index -> task
  idx,            \* loop index of the collection loop
  future_frame,   \* the AsyncResult popped for idx
  output,         \* the output path of the running decompress_one
  exc,            \* the exception in flight, "none" without one
  exitCode,       \* exit status of the process, -1 while it runs
  log             \* the calls made so far, in order

vars ==
  <<pc, argv, args, fs, pyfai, cur, sparse, opened, pbMax, dest, pool, tasks,
    future_frames, idx, future_frame, output, exc, exitCode, log>>

\* positions of args.images
Positions == 1..2

NoSparse == [filename |-> NoPath, nframes |-> 0]

NoDest == [kind |-> None, slots |-> <<>>]

\* the master files a previous run may have left behind
StaleMasters ==
  {MasterName(SplitextRoot(f) \o EigerSuffix) : f \in InputNames}
    \cup {MasterName(OutFile)}

StaleMaster == [kind |-> "master", link |-> NoPath, source |-> NoPath, nimages |-> 0]

Init ==
  /\ pc = "parse_args"
  /\ argv \in [IMAGE : ImageLists, format : FormatChoices, output : OutputChoices]
  /\ args = ArgumentFailure
  /\ \E world \in [InputNames -> InputStates \cup {[kind |-> "missing"]}],
        stale \in BOOLEAN :
       LET named == {argv.IMAGE[j] : j \in DOMAIN argv.IMAGE}
           present == {f \in named : world[f].kind # "missing"}
           old == IF stale THEN StaleMasters ELSE {}
       IN \* only the files named on the command line matter to the run
          /\ \A f \in InputNames \ named : world[f].kind = "missing"
          \* and companions of earlier runs only when the format reads them
          /\ stale => StartsWith(Lower(argv.format), EigerPrefix)
          /\ fs = [p \in present \cup old |->
                     IF p \in present THEN world[p] ELSE StaleMaster]
  /\ pyfai = "unknown"
  /\ cur = 0
  /\ sparse = NoSparse
  /\ opened = {}
  /\ pbMax = PbInitialMax
  /\ dest = NoDest
  /\ pool = [k \in Positions |-> "none"]
  /\ tasks = [k \in Positions |-> <<>>]
  /\ future_frames = <<>>
  /\ idx = 0
  /\ future_frame = NoHandle
  /\ output = NoPath
  /\ exc = "none"
  /\ exitCode = -1
  /\ log = <<>>

\* --------------------------------------------------------- parse_args, main
\* list.sort() of the expanded IMAGE list
SortImages(images) == SortSeq(images, StrLess)

\* parse_args, lines 132-153
ParseArgs ==
  /\ pc = "parse_args"
  /\ args' = IF Len(argv.IMAGE) = 0
             THEN ArgumentFailure
             ELSE [code |-> -1,
                   images |-> SortImages(argv.IMAGE),
                   format |-> Lower(argv.format),
                   output |-> argv.output]
  /\ pc' = "main"
  /\ UNCHANGED <<argv, fs, pyfai, cur, sparse, opened, pbMax, dest, pool, tasks,
                 future_frames, idx, future_frame, output, exc, exitCode, log>>

\* main, lines 276-281: a bare raise without an active exception is a
\* RuntimeError that nothing catches; otherwise the Converter is built and
\* decompress() starts with the first file.
MainStart ==
  /\ pc = "main"
  /\ IF args.code = EXIT_ARGUMENT_FAILURE
     THEN /\ exc' = "RuntimeError"
          /\ exitCode' = 1
          /\ pc' = "exit"
          /\ UNCHANGED <<cur, log>>
     ELSE /\ pc' = "decompress"
          /\ cur' = 1
          /\ log' = Append(log, [op |-> "Converter", file |-> 0])
          /\ UNCHANGED <<exc, exitCode>>
  /\ UNCHANGED <<argv, args, fs, pyfai, sparse, opened, pbMax, dest, pool, tasks,
                 future_frames, idx, future_frame, output>>

\* Only argparse.ArgumentError carries a message attribute.
HasMessage(e) == e = "ArgumentError"

\* main, lines 282-287: the handler reads err.message; an exception without
\* that attribute makes the handler itself fail with an uncaught
\* AttributeError, and the interpreter ends with status 1.
MainExcept ==
  /\ pc = "except"
  /\ IF HasMessage(exc)
     THEN exc' = "none"
     ELSE exc' = "AttributeError"
  /\ exitCode' = EXIT_FAILURE
  /\ pc' = "exit"
  /\ UNCHANGED <<argv, args, fs, pyfai, cur, sparse, opened, pbMax, dest, pool,
                 tasks, future_frames, idx, future_frame, output, log>>

\* Converter.decompress, lines 271-272, and main, line 287
Decompress ==
  /\ pc = "decompress"
  /\ IF cur <= Len(args.images)
     THEN /\ pc' = "open"
          /\ log' = Append(log, [op |-> "decompress_one", file |-> cur])
          /\ UNCHANGED exitCode
     ELSE /\ pc' = "exit"
          /\ exitCode' = EXIT_SUCCESS
          /\ UNCHANGED log
  /\ UNCHANGED <<argv, args, fs, pyfai, cur, sparse, opened, pbMax, dest, pool,
                 tasks, future_frames, idx, future_frame, output, exc>>

\* ------------------------------------------------- Converter.decompress_one
\* a format test that accepts every name
IsLimaAny(format) == TRUE

\* args.format.startswith("lima")
IsLima(format) == StartsWith(format, LimaPrefix)

\* a test for the name eiger itself
IsEigerExact(format) == format = EigerPrefix

\* args.format.startswith("eiger")
IsEiger(format) == StartsWith(format, EigerPrefix)

\* a slot of the preallocated buffer that no set_data has filled
EmptySlot == [src |-> 0, frame |-> -1]

\* limaimage.LimaImage()
NewLima == [kind |-> "lima", slots |-> <<>>]

\* eigerimage.EigerImage() with dataset = [numpy.empty((nframes,) + shape)]
NewEiger(nframes) == [kind |-> "eiger", slots |-> [i \in 0..(nframes - 1) |-> EmptySlot]]

\* dest.set_data(frame, index): the frame goes to slot index
SetData(d, frame, index) ==
  [d EXCEPT !.slots = [i \in (DOMAIN d.slots) \cup {index} |->
                         IF i = index THEN frame ELSE d.slots[i]]]

\* dest.save(path): the container is written to path, replacing what was there
SaveDest(files, d, path) ==
  [q \in (DOMAIN files) \cup {path} |->
     IF q = path THEN [kind |-> "dense", fmt |-> d.kind, frames |-> d.slots]
     ELSE files[q]]

\* a task as apply_async leaves it in the pool's queue
QueuedTask == [st |-> "queued", value |-> EmptySlot]

\* a test that takes every task for finished
FinishedAlways(task) == TRUE

\* a task that has returned or raised
Finished(task) == task.st \in {"ok", "failed"}

\* lines 221-228: open the source, check its class, size the progress bar
Open ==
  /\ pc = "open"
  /\ LET filename == args.images[cur]
     IN IF filename \notin DOMAIN fs
        THEN /\ exc' = "OSError"
             /\ pc' = "except"
             /\ UNCHANGED <<sparse, opened, pbMax>>
        ELSE IF fs[filename].kind # "sparse"
        THEN /\ exc' = "AssertionError"
             /\ pc' = "except"
             /\ opened' = opened \cup {cur}
             /\ UNCHANGED <<sparse, pbMax>>
        ELSE /\ sparse' = [filename |-> filename, nframes |-> fs[filename].nframes]
             /\ opened' = opened \cup {cur}
             /\ pbMax' = fs[filename].nframes
             /\ pc' = "format"
             /\ UNCHANGED exc
  /\ UNCHANGED <<argv, args, fs, pyfai, cur, dest, pool, tasks, future_frames,
                 idx, future_frame, output, exitCode, log>>

\* lines 229-235: choose the destination container or reject the format
SelectDest ==
  /\ pc = "format"
  /\ IF IsLima(args.format)
     THEN /\ dest' = NewLima
          /\ pc' = "pool"
          /\ UNCHANGED exc
     ELSE IF IsEiger(args.format)
     THEN /\ dest' = NewEiger(sparse.nframes)
          /\ pc' = "pool"
          /\ UNCHANGED exc
     ELSE /\ exc' = "RuntimeError"
          /\ pc' = "except"
          /\ UNCHANGED dest
  /\ UNCHANGED <<argv, args, fs, pyfai, cur, sparse, opened, pbMax, pool, tasks,
                 future_frames, idx, future_frame, output, exitCode, log>>

\* line 237: pool = ThreadPool(cpu_count())
CreatePool ==
  /\ pc = "pool"
  /\ pool' = [pool EXCEPT ![cur] = "open"]
  /\ log' = Append(log, [op |-> "ThreadPool", file |-> cur])
  /\ pc' = "submit"
  /\ UNCHANGED <<argv, args, fs, pyfai, cur, sparse, opened, pbMax, dest, tasks,
                 future_frames, idx, future_frame, output, exc, exitCode>>

\* lines 240-241: one step of the dict comprehension,
\* future_frames[idx] = pool.apply_async(sparse._generate_data, (idx,))
SubmitTask ==
  /\ pc = "submit"
  /\ LET n == Cardinality(DOMAIN future_frames)
     IN /\ n < sparse.nframes
        /\ tasks' = [tasks EXCEPT ![cur] =
                       [i \in 0..n |-> IF i < n THEN tasks[cur][i] ELSE QueuedTask]]
        /\ future_frames' =
             [i \in 0..n |-> IF i < n THEN future_frames[i] ELSE <<cur, n>>]
  /\ UNCHANGED <<pc, argv, args, fs, pyfai, cur, sparse, opened, pbMax, dest, pool,
                 idx, future_frame, output, exc, exitCode, log>>

\* a comprehension that may be left after any number of submissions
AllSubmittedEarly(futures, nframes) == TRUE

\* lines 240-241: the dict comprehension has run through range(nframes)
AllSubmitted(futures, nframes) == Cardinality(DOMAIN futures) = nframes

\* line 242: pool.close(), once every index has been submitted
PoolClose ==
  /\ pc = "submit"
  /\ AllSubmitted(future_frames, sparse.nframes)
  /\ pool' = [pool EXCEPT ![cur] = "closed"]
  /\ log' = Append(log, [op |-> "close", file |-> cur])
  /\ idx' = 0
  /\ pc' = "collect"
  /\ UNCHANGED <<argv, args, fs, pyfai, cur, sparse, opened, pbMax, dest, tasks,
                 future_frames, future_frame, output, exc, exitCode>>

\* a loop that stops one index early
LoopCountShort(nframes) == nframes - 1

\* range(sparse.nframes): the number of turns of the collection loop
LoopCount(nframes) == nframes

\* the AsyncResult filed last, whatever index is asked for
FutureLast(futures, index) ==
  futures[CHOOSE i \in DOMAIN futures : \A j \in DOMAIN futures : j <= i]

\* future_frames[idx]: the AsyncResult filed under idx
FutureFor(futures, index) == futures[index]

\* lines 243-245: the loop head and future_frames.pop(idx)
Pop ==
  /\ pc = "collect"
  /\ IF idx < LoopCount(sparse.nframes)
     THEN /\ future_frame' = FutureFor(future_frames, idx)
          /\ future_frames' =
               [i \in (DOMAIN future_frames) \ {idx} |-> future_frames[i]]
          /\ pc' = "get"
     ELSE /\ pc' = "join"
          /\ UNCHANGED <<future_frame, future_frames>>
  /\ UNCHANGED <<argv, args, fs, pyfai, cur, sparse, opened, pbMax, dest, pool,
                 tasks, idx, output, exc, exitCode, log>>

\* the task an AsyncResult stands for
TaskOf(handle) == tasks[handle[1]][handle[2]]

\* a get() that does not wait for its task
GetReadyNoWait(handle) == TRUE

\* a get() that returns as soon as a worker has taken the task
GetReadyOnStart(handle) == TaskOf(handle).st # "queued"

\* AsyncResult.get() returns once the task has finished
GetReady(handle) == Finished(TaskOf(handle))

\* a get() that swallows the exception of its task
GetRaisesNever(handle) == FALSE

\* a get() that raises as soon as any task of the pool has failed
GetRaisesAny(handle) ==
  \E i \in DOMAIN tasks[handle[1]] : tasks[handle[1]][i].st = "failed"

\* AsyncResult.get() re-raises the exception of a failed task
GetRaises(handle) == TaskOf(handle).st = "failed"

\* line 246: dest.set_data(future_frame.get(), idx)
Get ==
  /\ pc = "get"
  /\ GetReady(future_frame)
  /\ IF GetRaises(future_frame)
     THEN /\ exc' = "TaskError"
          /\ pc' = "except"
          /\ UNCHANGED <<dest, idx, log>>
     ELSE /\ dest' = SetData(dest, TaskOf(future_frame).value, idx)
          /\ log' = Append(log, [op |-> "set_data", file |-> cur, index |-> idx,
                                 frame |-> TaskOf(future_frame).value])
          /\ idx' = idx + 1
          /\ pc' = "collect"
          /\ UNCHANGED exc
  /\ UNCHANGED <<argv, args, fs, pyfai, cur, sparse, opened, pbMax, pool, tasks,
                 future_frames, future_frame, output, exitCode>>

\* pool.join() waits for the workers, which leave once the queue of the
\* closed pool is drained: every task of the pool has finished
JoinReady(k) == \A i \in DOMAIN tasks[k] : Finished(tasks[k][i])

\* line 247: pool.join() returns when the workers of the closed pool are gone
Join ==
  /\ pc = "join"
  /\ JoinReady(cur)
  /\ pool' = [pool EXCEPT ![cur] = "joined"]
  /\ log' = Append(log, [op |-> "join", file |-> cur])
  /\ pc' = "save"
  /\ UNCHANGED <<argv, args, fs, pyfai, cur, sparse, opened, pbMax, dest, tasks,
                 future_frames, idx, future_frame, output, exc, exitCode>>

\* an output path always derived from the input, whatever -o gives
OutputPathPerFile(format, explicit, filename) ==
  IF IsLima(format) THEN SplitextRoot(filename) \o DenseSuffix
  ELSE SplitextRoot(filename) \o EigerSuffix

\* lines 251-256: the output path
OutputPath(format, explicit, filename) ==
  IF explicit # NoPath THEN explicit
  ELSE IF IsLima(format) THEN SplitextRoot(filename) \o DenseSuffix
  ELSE IF IsEiger(format) THEN SplitextRoot(filename) \o EigerSuffix
  ELSE NoPath

\* a companion for every format
NeedsMasterAlways(format) == TRUE

\* format for which save_master follows dest.save (line 260)
NeedsMaster(format) == IsEiger(format)

\* lines 251-259: dest.save(output)
Save ==
  /\ pc = "save"
  /\ LET out == OutputPath(args.format, args.output, sparse.filename)
     IN /\ output' = out
        /\ fs' = SaveDest(fs, dest, out)
        /\ log' = Append(log, [op |-> "save", file |-> cur, path |-> out])
  /\ pc' = IF NeedsMaster(args.format) THEN "save_master" ELSE "finish"
  /\ UNCHANGED <<argv, args, pyfai, cur, sparse, opened, pbMax, dest, pool, tasks,
                 future_frames, idx, future_frame, exc, exitCode>>

\* ------------------------------------------------------------- save_master
\* an existence test that never finds the file
MasterExistsNever(files, master) == FALSE

\* os.path.exists(master), line 175
MasterExists(files, master) == master \in DOMAIN files

\* the companion file a complete run of lines 186-208 leaves
MasterFile(files, outfile, sparsefile) ==
  [kind |-> "master", link |-> outfile, source |-> sparsefile,
   nimages |-> files[sparsefile].nframes]

\* the companion file left when the body of the with block fails part way
PartialMaster(sparsefile) ==
  [kind |-> "master", link |-> NoPath, source |-> sparsefile, nimages |-> -1]

WriteFile(files, path, content) ==
  [q \in (DOMAIN files) \cup {path} |-> IF q = path THEN content ELSE files[q]]

\* what the steps after the import of pyFAI can meet: load_param fails on the
\* configuration, pyFAI.load fails on the geometry, the with block fails
\* after Nexus(master, "w") created the file, or everything works
MasterOutcomes == {"written", "config", "geometry", "partial"}

\* lines 260-261 and save_master, lines 169-208
SaveMaster ==
  /\ pc = "save_master"
  /\ LET sparsefile == sparse.filename
         master == MasterName(output)
         call == [op |-> "save_master", file |-> cur, outfile |-> output,
                  master |-> master]
     IN IF MasterExists(fs, master)
        THEN /\ log' = Append(log, [call EXCEPT !.op = "save_master:exists"])
             /\ pc' = "finish"
             /\ UNCHANGED <<fs, pyfai, exc>>
        ELSE \E imported \in IF pyfai = "unknown" THEN {"present", "absent"} ELSE {pyfai} :
               /\ pyfai' = imported
               /\ IF imported = "absent"
                  THEN /\ log' = Append(log, [call EXCEPT !.op = "save_master:no_pyfai"])
                       /\ pc' = "finish"
                       /\ UNCHANGED <<fs, exc>>
                  ELSE \E outcome \in MasterOutcomes :
                         /\ log' = Append(log, [call EXCEPT !.op = "save_master:" \o outcome])
                         /\ fs' = CASE outcome = "written" ->
                                         WriteFile(fs, master, MasterFile(fs, output, sparsefile))
                                    [] outcome = "partial" ->
                                         WriteFile(fs, master, PartialMaster(sparsefile))
                                    [] OTHER -> fs
                         /\ exc' = CASE outcome = "written" -> exc
                                     [] outcome = "config" -> "ConfigError"
                                     [] outcome = "geometry" -> "GeometryError"
                                     [] OTHER -> "WriteError"
                         /\ pc' = IF outcome = "written" THEN "finish" ELSE "except"
  /\ UNCHANGED <<argv, args, cur, sparse, opened, pbMax, dest, pool, tasks,
                 future_frames, idx, future_frame, output, exitCode>>

\* lines 262-267 and the next turn of the loop of decompress: the locals of
\* decompress_one go away, the source is not closed
Finish ==
  /\ pc = "finish"
  /\ cur' = cur + 1
  /\ sparse' = NoSparse
  /\ dest' = NoDest
  /\ future_frames' = <<>>
  /\ idx' = 0
  /\ future_frame' = NoHandle
  /\ output' = NoPath
  /\ pc' = "decompress"
  /\ UNCHANGED <<argv, args, fs, pyfai, opened, pbMax, pool, tasks, exc, exitCode, log>>

\* ------------------------------------------------------- the pool's workers
Running(k) == {i \in DOMAIN tasks[k] : tasks[k][i].st = "running"}

Queued(k) == {i \in DOMAIN tasks[k] : tasks[k][i].st = "queued"}

\* the task a free worker takes: the queue of the pool is first in, first out
NextQueued(k) == CHOOSE i \in Queued(k) : \A j \in Queued(k) : i <= j

\* a pool that starts every task at once
WorkerAlwaysFree(k) == TRUE

\* ThreadPool(processes): that many workers, each running one task at a time
WorkerFree(k) == Cardinality(Running(k)) < PoolSize

\* a worker of the pool of position k takes the next task of the queue
StartTask(k) ==
  /\ pc # "exit"
  /\ pool[k] \in {"open", "closed"}
  /\ Queued(k) # {}
  /\ WorkerFree(k)
  /\ tasks' = [tasks EXCEPT ![k][NextQueued(k)].st = "running"]
  /\ UNCHANGED <<pc, argv, args, fs, pyfai, cur, sparse, opened, pbMax, dest, pool,
                 future_frames, idx, future_frame, output, exc, exitCode, log>>

\* sparse._generate_data(i) returns or raises in its worker
FinishTask(k, i, ok) ==
  /\ pc # "exit"
  /\ i \in Running(k)
  /\ tasks' = [tasks EXCEPT ![k][i] =
                 IF ok THEN [st |-> "ok", value |-> GenerateData(k, i)]
                 ELSE [st |-> "failed", value |-> EmptySlot]]
  /\ UNCHANGED <<pc, argv, args, fs, pyfai, cur, sparse, opened, pbMax, dest, pool,
                 future_frames, idx, future_frame, output, exc, exitCode, log>>

\* ------------------------------------------------------------ specification
Next ==
  \/ ParseArgs
  \/ MainStart
  \/ MainExcept
  \/ Decompress
  \/ Open
  \/ SelectDest
  \/ CreatePool
  \/ SubmitTask
  \/ PoolClose
  \/ Pop
  \/ Get
  \/ Join
  \/ Save
  \/ SaveMaster
  \/ Finish
  \/ \E k \in Positions : StartTask(k)
  \/ \E k \in Positions, i \in 0..(MaxFrames - 1), ok \in BOOLEAN : FinishTask(k, i, ok)

Spec == Init /\ [][Next]_vars

\* the steps of the main thread from the first apply_async to dest.save,
\* lines 240-259
Reconstruct ==
  \/ SubmitTask
  \/ PoolClose
  \/ Pop
  \/ Get
  \/ Join
  \/ Save

\* the runs without -o that find no companion of an earlier run: neither
\* bears on lines 240-259
FairInit ==
  /\ Init
  /\ argv.output = NoPath
  /\ \A p \in DOMAIN fs : fs[p] # StaleMaster

\* The program under fair scheduling: the main thread runs whenever it is
\* not blocked, and a free worker of a pool takes the next queued task.
\* Nothing makes sparse._generate_data return: a task may run for ever.
FairSpec ==
  /\ FairInit
  /\ [][Next]_vars
  /\ WF_vars(Reconstruct)
  /\ \A k \in Positions : WF_vars(StartTask(k))

\* ------------------------------------------- save_master's name, on its own
\* longest output path the name of the companion is computed for
MaxPathLen == 4

\* the characters that matter to lines 171-173: a letter, the "_" of
\* split, the separator of directories and the dot of the extension
PathAlphabet == {"a", "_", "/", "."}

\* the output paths: every text of these characters whose file name, the
\* part after the last separator, holds a letter
MasterPaths ==
  {p \in UNION {[1..n -> PathAlphabet] : n \in 1..MaxPathLen} :
     \E i \in (RFind(p, "/") + 1)..Len(p) : p[i] = "a"}

\* save_master is entered with an output path; nothing else has happened
NameInit ==
  /\ pc = "master_name"
  /\ output \in MasterPaths
  /\ argv = [IMAGE |-> <<>>, format |-> EigerPrefix, output |-> NoPath]
  /\ args = ArgumentFailure
  /\ fs = <<>>
  /\ pyfai = "unknown"
  /\ cur = 0
  /\ sparse = NoSparse
  /\ opened = {}
  /\ pbMax = PbInitialMax
  /\ dest = NoDest
  /\ pool = [k \in Positions |-> "none"]
  /\ tasks = [k \in Positions |-> <<>>]
  /\ future_frames = <<>>
  /\ idx = 0
  /\ future_frame = NoHandle
  /\ exc = "none"
  /\ exitCode = -1
  /\ log = <<>>

\* save_master, lines 171-173
NameMaster ==
  /\ pc = "master_name"
  /\ log' = Append(log, [op |-> "master_name", file |-> cur, outfile |-> output,
                         master |-> MasterName(output)])
  /\ pc' = "named"
  /\ UNCHANGED <<argv, args, fs, pyfai, cur, sparse, opened, pbMax, dest, pool,
                 tasks, future_frames, idx, future_frame, output, exc, exitCode>>

NameNext == NameMaster

NameSpec == NameInit /\ [][NameNext]_vars

\* ================================================================ claims
LogIdx == 1..Len(log)

\* positions in the log of the calls of one kind made for the file at k
Calls(k, op) == {j \in LogIdx : log[j].op = op /\ log[j].file = k}

MasterOps ==
  {"save_master:exists", "save_master:no_pyfai", "save_master:written",
   "save_master:config", "save_master:geometry", "save_master:partial"}

MasterCalls(k) == {j \in LogIdx : log[j].op \in MasterOps /\ log[j].file = k}

\* the indices handed to set_data for the file at k
SetIndices(k) == {log[j].index : j \in Calls(k, "set_data")}

\* frame count of the input at position k
NFrames(k) == fs[args.images[k]].nframes

\* the frames the producer yields for the file at k, by index
Produced(k) == [i \in 0..(NFrames(k) - 1) |-> GenerateData(k, i)]

\* C1: when dest.save is called for a file of N frames, set_data has been
\* called exactly N times for it, all before the save, and the indices of
\* these calls are exactly 0..N-1, none missing and none twice.
C1_EveryIndexOnceBeforeSave ==
  /\ \A j \in LogIdx :
       log[j].op = "save" =>
         LET k == log[j].file
             before == {m \in Calls(k, "set_data") : m < j}
         IN /\ Calls(k, "set_data") = before
            /\ Cardinality(before) = NFrames(k)
            /\ {log[m].index : m \in before} = 0..(NFrames(k) - 1)
  /\ pc = "save" =>
       /\ Cardinality(Calls(cur, "set_data")) = NFrames(cur)
       /\ SetIndices(cur) = 0..(NFrames(cur) - 1)

\* C1 witness: a file of at least three frames has been saved
C1_Witness ==
  \E j \in LogIdx : log[j].op = "save" /\ NFrames(log[j].file) >= 3

\* the index being waited for: popped from the map, not yet handed over
Awaited == IF pc = "get" THEN {idx} ELSE {}

\* set_data calls come in ascending index order: the call after m earlier
\* calls for the same file carries index m
AscendingOrder ==
  \A k \in Positions : \A j \in Calls(k, "set_data") :
    log[j].index = Cardinality({m \in Calls(k, "set_data") : m < j})

\* no frame is handed over before its task has completed
OnlyCompleted ==
  \A k \in Positions : \A j \in Calls(k, "set_data") :
    tasks[k][log[j].index].st = "ok"

\* C2 as stated: ascending order, only completed tasks, and during the
\* collection loop the map holds exactly the indices not yet handed to
\* set_data.
C2_Original ==
  /\ AscendingOrder
  /\ OnlyCompleted
  /\ pc \in {"collect", "get"} =>
       DOMAIN future_frames = (0..(NFrames(cur) - 1)) \ SetIndices(cur)

\* C2 (amended): the k-th set_data call of a file carries index k-1, no
\* set_data(idx) happens before the task of idx has completed, and during
\* the collection loop future_frames holds exactly the indices not yet
\* popped: those not yet handed to set_data less the index whose result is
\* being waited for, which pop removed before get() returned.
C2_AscendingAndPopped ==
  /\ AscendingOrder
  /\ OnlyCompleted
  /\ pc \in {"collect", "get"} =>
       DOMAIN future_frames = (0..(NFrames(cur) - 1)) \ (SetIndices(cur) \cup Awaited)

\* C2 witness: the consumer has handed over index 0 and waits for an index
\* whose task still runs while a later task has completed
C2_Witness ==
  /\ pc = "get"
  /\ idx >= 1
  /\ tasks[cur][idx].st = "running"
  /\ \E i \in DOMAIN tasks[cur] : i > idx /\ tasks[cur][i].st = "ok"
  /\ 0 \in SetIndices(cur)

\* C3: every frame handed to set_data under index i is the producer's frame
\* of index i of that file, and what save writes holds in slot i the
\* producer's frame of index i.
C3_FrameOfItsIndex ==
  /\ \A k \in Positions : \A j \in Calls(k, "set_data") :
       log[j].frame = GenerateData(k, log[j].index)
  /\ pc = "save" => dest.slots = Produced(cur)
  /\ pc \in {"save_master", "finish"} => fs[output].frames = Produced(cur)

\* C3 witness: frames have been handed over for a file while a task of a
\* lower index still runs and a task of a higher index has completed
C3_Witness ==
  /\ SetIndices(cur) # {}
  /\ \E i, j \in DOMAIN tasks[cur] :
       i < j /\ tasks[cur][i].st = "running" /\ tasks[cur][j].st = "ok"

\* C4: once a task of a file has failed, save and save_master are never
\* called for that file and the main thread does not get past the
\* collection loop; the failure met by get() is in flight as an exception;
\* and save is reached only with all N slots written.
C4_FailureAbortsFile ==
  /\ \A k \in Positions :
       (\E i \in DOMAIN tasks[k] : tasks[k][i].st = "failed") =>
         /\ Calls(k, "save") = {}
         /\ MasterCalls(k) = {}
         /\ k = cur => pc \notin {"save", "save_master", "finish"}
  /\ exc = "TaskError" => pc = "except" /\ tasks[cur][idx].st = "failed"
  /\ pc = "save" =>
       /\ DOMAIN dest.slots = 0..(NFrames(cur) - 1)
       /\ \A i \in DOMAIN dest.slots : dest.slots[i] # EmptySlot

\* C4 witness: a task failed after earlier frames had been written, and the
\* exception left decompress_one
C4_Witness ==
  /\ pc = "except"
  /\ exc = "TaskError"
  /\ idx >= 1
  /\ Calls(cur, "save") = {}

\* C5 as stated: the batch driver goes on after a failed file, so when the
\* program ends every file of args.images has been handed to
\* decompress_one.
C5_LaterFilesStillProcessed ==
  (pc = "exit" /\ args.code # EXIT_ARGUMENT_FAILURE) =>
    \A k \in 1..Len(args.images) : Calls(k, "decompress_one") # {}

\* the format names neither container is chosen for
Unsupported ==
  /\ ~StartsWith(args.format, LimaPrefix)
  /\ ~StartsWith(args.format, EigerPrefix)

\* no pool, no task, no call on a destination and no file written
NothingStarted ==
  /\ \A k \in Positions : pool[k] = "none" /\ tasks[k] = <<>>
  /\ \A j \in LogIdx : log[j].op \in {"Converter", "decompress_one"}
  /\ \A p \in DOMAIN fs : fs[p].kind \in {"sparse", "other"} \/ fs[p] = StaleMaster

\* the rejection of the format by decompress_one is in flight
Rejected == pc = "except" /\ exc = "RuntimeError"

\* C6 as stated: at the rejection no pool exists, nothing was submitted or
\* written, and the invocation has changed nothing: no source handle is
\* open and the progress bar is as it was.
C6_Original ==
  Rejected =>
    /\ NothingStarted
    /\ opened = {}
    /\ pbMax = PbInitialMax

\* C6 (amended): an unsupported format is rejected before any pool is
\* created: no task is submitted, no set_data, save or save_master call
\* happens and no file is written; what the invocation has changed by then
\* is that the source is open (it stays open) and pb.max_value is the frame
\* count of the source.
C6_RejectedBeforePool ==
  /\ Unsupported => NothingStarted /\ pc \notin {"pool", "submit", "collect", "get"}
  /\ Rejected =>
       /\ Unsupported
       /\ cur \in opened
       /\ pbMax = sparse.nframes

\* C6 witness: the rejection of a source of several frames
C6_Witness == Rejected /\ sparse.nframes >= 2 /\ cur \in opened

\* the dense frames of the file at k that exist and have not been handed to
\* set_data: being produced, or produced and waiting in their AsyncResult
LiveFrames(k) ==
  {i \in DOMAIN tasks[k] :
     \/ tasks[k][i].st = "running"
     \/ tasks[k][i].st = "ok" /\ i \notin SetIndices(k)}

\* C7 as stated: the live frames number at most the pool size plus a small
\* backlog (one frame), whatever the frame count.
C7_Original ==
  \A k \in Positions : Cardinality(LiveFrames(k)) <= PoolSize + 1

\* C7 (amended): at most pool-size frames are being produced at once, but
\* the frames produced and not yet handed to set_data are bounded only by
\* the frame count N: every state has at most N live frames, and N of them
\* are live when the task of index 0 is slow.
C7_BoundedByFrameCount ==
  \A k \in Positions :
    /\ Cardinality(Running(k)) <= PoolSize
    /\ DOMAIN tasks[k] # {} => Cardinality(LiveFrames(k)) <= NFrames(k)

\* C7 witness: index 0 is still being produced, every later frame of the
\* file waits, and they are more than the pool size plus one
C7_Witness ==
  /\ pc = "get"
  /\ idx = 0
  /\ tasks[cur][0].st = "running"
  /\ LiveFrames(cur) = 0..(NFrames(cur) - 1)
  /\ NFrames(cur) > PoolSize + 1

\* C8: dest.save comes after the join of the pool, which comes after all N
\* set_data calls of the file; save_master is called only with a format
\* that selects the eiger container and only after the save of the same
\* file; with a lima format it is never called.
C8_SaveAfterJoinMasterAfterSave ==
  /\ \A j \in LogIdx :
       /\ log[j].op = "save" =>
            \E jn \in Calls(log[j].file, "join") :
              /\ jn < j
              /\ Cardinality({m \in Calls(log[j].file, "set_data") : m < jn})
                   = NFrames(log[j].file)
       /\ log[j].op \in MasterOps =>
            /\ StartsWith(args.format, EigerPrefix)
            /\ \E js \in Calls(log[j].file, "save") : js < j
  /\ StartsWith(args.format, LimaPrefix) =>
       /\ \A j \in LogIdx : log[j].op \notin MasterOps
       /\ pc # "save_master"

\* C8 witness: save_master has been called for a saved eiger file of
\* several frames
C8_Witness ==
  \E j \in LogIdx :
    /\ log[j].op \in MasterOps
    /\ NFrames(log[j].file) >= 2
    /\ Calls(log[j].file, "save") # {}

\* C9: a companion file that exists is never changed, and a save_master
\* call that finds its companion existing changes no file, raises nothing
\* and returns.
C9_ExistingMasterKept ==
  [][ /\ \A m \in DOMAIN fs :
           fs[m].kind = "master" => m \in DOMAIN fs' /\ fs'[m] = fs[m]
      /\ (pc = "save_master" /\ MasterName(output) \in DOMAIN fs) =>
           fs' = fs /\ exc' = "none" /\ pc' = "finish" ]_vars

\* C9 witness: save_master wrote a companion and a later call for the same
\* output found it and left the file of the first call in place
C9_Witness ==
  \E j1, j2 \in LogIdx :
    /\ j1 < j2
    /\ log[j1].op = "save_master:written"
    /\ log[j2].op = "save_master:exists"
    /\ log[j1].master = log[j2].master
    /\ fs[log[j1].master].source = args.images[log[j1].file]

\* C10 as stated: whichever way the companion step fails (no pyFAI, no
\* readable configuration, no resolvable geometry), save_master returns
\* normally and no exception is in flight.
C10_MasterFailureNotFatal ==
  \A j \in LogIdx :
    log[j].op \in {"save_master:no_pyfai", "save_master:config", "save_master:geometry"}
      => exc = "none"


\* C11 as stated: a command line without IMAGE makes the program end with
\* exit status 2 (EXIT_ARGUMENT_FAILURE), and no Converter was created, no
\* source opened and no file touched.
C11_EmptyImageExitsWithTwo ==
  (pc = "exit" /\ Len(argv.IMAGE) = 0) =>
    /\ exitCode = EXIT_ARGUMENT_FAILURE
    /\ log = <<>>
    /\ opened = {}
    /\ fs = <<>>

\* decompress_one has ended for the file at position k: it returned, or an
\* exception has left it
Ended(k) == k < cur \/ (k = cur /\ pc \in {"except", "exit"})

\* C12 as stated: in every terminal state of decompress_one, after a normal
\* return and after a raised error alike, the source the invocation opened
\* is closed.
C12_SourceClosedAtEnd ==
  \A k \in Positions : Ended(k) => k \notin opened

\* C13 as stated: once decompress_one has ended for a file, by a normal
\* return or by the error of a failed task, no reconstruction task of that
\* file is running or pending.
C13_NoTaskOutlivesInvocation ==
  \A k \in Positions :
    (Ended(k) /\ pc # "exit") => Running(k) = {} /\ Queued(k) = {}

\* the position in the log of the close call of the pool of file k
CloseAt(k) == CHOOSE j \in Calls(k, "close") : TRUE

\* C14 as stated: pool.close() is not executed before the last set_data
\* call of the file: while a frame of the file is still to be handed over
\* the pool has not been closed, and pool.join() follows the close.
C14_Original ==
  \A k \in Positions :
    /\ (Calls(k, "close") # {} /\ NFrames(k) >= 1) =>
         Cardinality({m \in Calls(k, "set_data") : m < CloseAt(k)}) = NFrames(k)
    /\ \A j \in Calls(k, "join") : Calls(k, "close") # {} /\ CloseAt(k) < j

\* C14 (amended): pool.close() is executed once, right after all N tasks
\* have been submitted and before the first set_data call of the file: all
\* set_data calls come after it, and pool.join() follows the last set_data
\* call.
C14_CloseBeforeLoopJoinAfter ==
  \A k \in Positions :
    /\ Cardinality(Calls(k, "close")) <= 1
    /\ pool[k] \in {"closed", "joined"} <=> Calls(k, "close") # {}
    /\ Calls(k, "close") # {} =>
         /\ DOMAIN tasks[k] = 0..(NFrames(k) - 1)
         /\ \A m \in Calls(k, "set_data") : CloseAt(k) < m
    /\ \A j \in Calls(k, "join") :
         /\ Calls(k, "close") # {} /\ CloseAt(k) < j
         /\ Cardinality({m \in Calls(k, "set_data") : m < j}) = NFrames(k)

\* C14 witness: the pool of a file of several frames was closed, all its
\* set_data calls followed, and it has been joined
C14_Witness ==
  \E k \in Positions :
    /\ Calls(k, "join") # {}
    /\ NFrames(k) >= 2
    /\ Cardinality({m \in Calls(k, "set_data") : m > CloseAt(k)}) = NFrames(k)


\* every reconstruction task of the file at k has completed successfully
AllOk(k) ==
  /\ pool[k] # "none"
  /\ DOMAIN tasks[k] = 0..(NFrames(k) - 1)
  /\ \A i \in DOMAIN tasks[k] : tasks[k][i].st = "ok"

\* while the task of the awaited index has not completed, the main thread
\* stays in get() for that index: no call is made and no file written
BlockedWhileUnfinished ==
  (pc = "get" /\ ~Finished(tasks[cur][idx])) =>
    /\ pc' = "get"
    /\ idx' = idx
    /\ cur' = cur
    /\ log' = log
    /\ fs' = fs
    /\ dest' = dest

\* C15: under fair scheduling, once every task of a file has completed
\* successfully decompress_one eventually calls dest.save for it; and
\* while the task of the awaited index k has not completed the conversion
\* stays blocked at k (for ever if the task hangs), with set_data called
\* exactly for 0..k-1 and save not reached.
C15_SaveIfAllCompleteElseBlocked ==
  /\ \A k \in Positions : AllOk(k) ~> (Calls(k, "save") # {})
  /\ [][BlockedWhileUnfinished]_vars
  /\ [](pc = "get" =>
          /\ SetIndices(cur) = 0..(idx - 1)
          /\ Calls(cur, "save") = {}
          /\ \A i \in 0..(idx - 1) : tasks[cur][i].st = "ok")

\* C15 witness: the main thread waits for index k >= 1 whose task is still
\* running while every other task of the file has completed: frames
\* 0..k-1 are handed over and nothing else can happen until it completes
C15_Witness ==
  /\ pc = "get"
  /\ idx >= 1
  /\ tasks[cur][idx].st = "running"
  /\ \A i \in DOMAIN tasks[cur] : i # idx => tasks[cur][i].st = "ok"
  /\ SetIndices(cur) = 0..(idx - 1)


\* the pool of the file at k exists and has not been joined
PoolAlive(k) == pool[k] \in {"open", "closed"}

\* C16: the files are processed strictly one after the other: decompress
\* turns to the file at k+1 only after decompress_one of the file at k has
\* made its save (and, for eiger, its save_master call), and the pools and
\* tasks of two files never exist at once: when the pool of a file is
\* alive or has a task that is not finished, the pool of every file before
\* it is joined with all its tasks finished, and no pool or task of a
\* later file exists.
C16_OneFileAtATime ==
  /\ \A k1, k2 \in Positions :
       (k1 < k2 /\ (PoolAlive(k2) \/ tasks[k2] # <<>>)) =>
         /\ pool[k1] = "joined"
         /\ Running(k1) = {} /\ Queued(k1) = {}
  /\ \A k \in Positions :
       /\ k > cur => pool[k] = "none" /\ tasks[k] = <<>>
       /\ (PoolAlive(k) \/ Running(k) # {} \/ Queued(k) # {}) => k = cur
  /\ \A j \in LogIdx :
       (log[j].op = "decompress_one" /\ log[j].file > 1) =>
         LET k == log[j].file - 1
         IN /\ \E js \in Calls(k, "save") : js < j
            /\ IsEiger(args.format) => \E jm \in MasterCalls(k) : jm < j
            /\ \A m \in LogIdx : (m > j) => log[m].file # k

\* C16 witness: tasks of the second file are running in its pool while the
\* pool of the first file, which had several frames, is joined
C16_Witness ==
  /\ cur = 2
  /\ PoolAlive(2)
  /\ Running(2) # {}
  /\ pool[1] = "joined"
  /\ NFrames(1) >= 2


\* the places of decompress_one behind the choice of the container
PastFormat == {"pool", "submit", "collect", "get", "join", "save", "save_master", "finish"}

\* the format names the help text of -O enumerates
KnownFormats == {LimaPrefix, EigerPrefix}

\* C17 as stated: a format is accepted only when it is one of the
\* enumerated names; every other value, eiger2 included, is rejected with
\* the unsupported-format error.
C17_Original ==
  /\ pc \in PastFormat => args.format \in KnownFormats
  /\ (pc = "except" /\ sparse # NoSparse /\ pool[cur] = "none"
        /\ args.format \notin KnownFormats) => exc = "RuntimeError"

\* C17 (amended): the lower-cased format is accepted when it begins with
\* lima or with eiger, whatever follows the prefix (eiger2 selects the
\* eiger container as eiger does); every value with neither prefix makes
\* decompress_one fail with the unsupported-format error before a
\* container is chosen.
C17_PrefixDecidesFormat ==
  /\ pc \in PastFormat =>
       /\ StartsWith(args.format, LimaPrefix) => dest.kind = "lima"
       /\ StartsWith(args.format, EigerPrefix) => dest.kind = "eiger"
       /\ dest.kind \in {"lima", "eiger"}
  /\ Rejected => Unsupported /\ dest = NoDest
  /\ Unsupported => pc \notin PastFormat
  /\ (pc = "except" /\ sparse # NoSparse /\ pool[cur] = "none" /\ Unsupported)
       => exc = "RuntimeError"

\* C17 witness: a file was converted and saved from the eiger container
\* under the format name eiger2
C17_Witness ==
  /\ args.format = <<"e", "i", "g", "e", "r", "2">>
  /\ \E j \in LogIdx : log[j].op = "save" /\ NFrames(log[j].file) >= 1
  /\ \E p \in DOMAIN fs : fs[p].kind = "dense" /\ fs[p].fmt = "eiger"


\* the directory part of a path, with its separator
DirName(p) == SubSeq(p, 1, RFind(p, "/"))

\* the file name of a path
BaseName(p) == SubSeq(p, RFind(p, "/") + 1, Len(p))

\* the companion name as the claim derives it: within the directory of the
\* output, the stem of the file name with its last "_" segment replaced by
\* master, or with _master appended when the stem has no "_"
ClaimedMasterName(p) ==
  LET stem == SplitextRoot(BaseName(p))
      cut == RFind(stem, "_")
      head == IF cut = 0 THEN stem ELSE SubSeq(stem, 1, cut - 1)
  IN DirName(p) \o head \o MasterSuffix

\* C18 as stated: for every output path the companion name is the output's
\* file name without extension, its last "_" segment replaced by master
\* (or _master appended to a stem without "_"), in the directory of the
\* output file, also when only the directory part contains "_".
C18_MasterBesideOutput ==
  \A j \in LogIdx :
    log[j].op = "master_name" =>
      /\ log[j].master = ClaimedMasterName(log[j].outfile)
      /\ DirName(log[j].master) = DirName(log[j].outfile)


\* the indices of the file at k whose task has failed
FailedIdx(k) == {i \in DOMAIN tasks[k] : tasks[k][i].st = "failed"}

\* the smallest failing index of the file at k
FirstFailed(k) == CHOOSE i \in FailedIdx(k) : \A j \in FailedIdx(k) : i <= j

\* C19: when tasks of a file fail, the error is raised at the smallest
\* failing index k, whatever the order of completion: at the raise
\* set_data has been called exactly for 0..k-1 in ascending order, no
\* set_data call for an index >= k is ever made, and the frames produced
\* for indices above k reach neither set_data nor a file.
C19_RaisedAtSmallestFailingIndex ==
  /\ \A k \in Positions :
       FailedIdx(k) # {} =>
         /\ \A j \in Calls(k, "set_data") : log[j].index < FirstFailed(k)
         /\ \A j \in Calls(k, "set_data") :
              log[j].index = Cardinality({m \in Calls(k, "set_data") : m < j})
         /\ \A q \in DOMAIN fs :
              fs[q].kind = "dense" =>
                \A i \in DOMAIN fs[q].frames : fs[q].frames[i].src # k
  /\ exc = "TaskError" =>
       /\ pc = "except"
       /\ idx = FirstFailed(cur)
       /\ SetIndices(cur) = 0..(idx - 1)
  /\ (pc = "exit" /\ cur \in Positions /\ FailedIdx(cur) # {}) =>
       /\ exc # "none"
       /\ SetIndices(cur) = 0..(FirstFailed(cur) - 1)

\* C19 witness: the task of index k >= 1 failed and the error is raised
\* there, while the frame of a higher index was already produced and a
\* task of a higher index failed as well
C19_Witness ==
  /\ pc = "except"
  /\ exc = "TaskError"
  /\ idx >= 1
  /\ \E i \in DOMAIN tasks[cur] : i > idx /\ tasks[cur][i].st = "ok"
  /\ \E i \in DOMAIN tasks[cur] : i > idx /\ tasks[cur][i].st = "failed"


\* positions in the log of the dest.save calls
Saves == {j \in LogIdx : log[j].op = "save"}

\* the file of the latest dest.save call
LastSaved == log[CHOOSE j \in Saves : \A m \in Saves : m <= j].file

\* positions in the log of the save_master calls that wrote a companion
Written == {j \in LogIdx : log[j].op = "save_master:written"}

\* C20: with an explicit output every dest.save of the batch targets that
\* one path, so the file there holds the frames of the latest saved input
\* only and, after the batch, those of the last input; with an eiger
\* format the companion is written by the call of the first file alone,
\* every later call finds it and skips, and after the batch the companion
\* carries the name and frame count of the first input while the data
\* file it links holds the last input.
C20_ExplicitOutputOverwritten ==
  args.output # NoPath =>
    /\ \A j \in Saves : log[j].path = args.output
    /\ Saves # {} =>
         /\ fs[args.output].kind = "dense"
         /\ fs[args.output].frames = Produced(LastSaved)
    /\ \A j \in Written : log[j].file = 1 /\ log[j].master = MasterName(args.output)
    /\ Written # {} =>
         \A j \in LogIdx :
           (log[j].op \in MasterOps /\ log[j].file > 1) =>
             log[j].op = "save_master:exists"
    /\ (pc = "exit" /\ exitCode = EXIT_SUCCESS) =>
         /\ LastSaved = Len(args.images)
         /\ Written # {} =>
              LET master == fs[MasterName(args.output)]
              IN /\ master.link = args.output
                 /\ master.source = args.images[1]
                 /\ master.nimages = NFrames(1)

\* C20 witness: a batch of two inputs of different frame counts ended
\* successfully with an explicit output and an eiger format: the companion
\* written for the first input gives its frame count, the data file has
\* the frame count of the second
C20_Witness ==
  /\ pc = "exit"
  /\ exitCode = EXIT_SUCCESS
  /\ args.output # NoPath
  /\ Len(args.images) = 2
  /\ Written # {}
  /\ NFrames(1) # NFrames(2)
  /\ fs[MasterName(args.output)].nimages = NFrames(1)
  /\ DOMAIN fs[args.output].frames = 0..(NFrames(2) - 1)

====
